---- MODULE Spec2Model ----
(***************************************************************************)
(* The text-layout engine of pdfme (src/pdfme/text.py): PDFTextLinePart,   *)
(* PDFTextLine and PDFTextBase.run with the handlers it calls.             *)
(*                                                                         *)
(* Lengths are integers in millipoints (1/1000 pt), so that the source's   *)
(* round(v, 3) is a rounding to an integer.  A factor is a fraction        *)
(* num/den.  A word is a sequence of one-character strings; ' ' is the     *)
(* word <<" ">>.  Line objects live in line_objs; a reference to a line is *)
(* its index there, and the next_line of the line at index i, when it has  *)
(* one, is the line at index i + 1.                                        *)
(***************************************************************************)
EXTENDS Integers, Sequences, FiniteSets, TLC

VARIABLES
    \* PDFTextBase, set by __init__ and kept across run() calls
    content, width, height, text_align, indent,
    last_part_index, last_word_index, finished, is_first_line, correct_indent,
    used_fonts,
    \* PDFTextBase, set by init() at the start of every run()
    started, lines, text, graphics, ids, current_height,
    current_line_used_fonts, current_line, line_objs,
    last_indent, last_state, last_factor, last_color, last_stroke_width, y_,
    \* position inside run(): pc, the two loop indices and the range ends
    pc, part_index, word_index, ret,
    \* history: calls made, what add_line_to_stream computed per call, and the
    \* lines the caller saw after earlier run() calls
    runs, constructs, emitted, prev_lines, first_out,
    \* history: the calls made on a line driven directly
    calls,
    \* PDFText: the content handed to __init__ and what parsing it gave
    tree, parse

vars == <<content, width, height, text_align, indent,
          last_part_index, last_word_index, finished, is_first_line,
          correct_indent, used_fonts,
          started, lines, text, graphics, ids, current_height,
          current_line_used_fonts, current_line, line_objs,
          last_indent, last_state, last_factor, last_color, last_stroke_width,
          y_, pc, part_index, word_index, ret,
          runs, constructs, emitted, prev_lines, first_out, calls,
          tree, parse>>

-----------------------------------------------------------------------------
(* Bounds of the model *)

\* Total size of a content: one per character of text, one per 'br' part.
MaxChars == 4

\* Number of run() calls on one instance.
MaxRuns == 2

\* Number of times the same content is handed to a new instance.
MaxConstructs == 1

-----------------------------------------------------------------------------
(* Program constants *)

\* PARAGRAPH_DEFAULTS['line_height'] = 1.1, as the fraction 11/10
LineHeightNum == 11
LineHeightDen == 10

\* PDFTextLine.justify_min_factor = 0.7, as the fraction 7/10
JustifyMinFactorNum == 7
JustifyMinFactorDen == 10

\* list_indent=0, the default of PDFTextBase.__init__ (list_text is None)
list_indent == 0

-----------------------------------------------------------------------------
(* Inputs *)

Letters == <<"a", "b", "c", "d", "e", "f", "g">>

\* Fixture font metric: every character advances 600/1000 em.
GlyphWidth(char) == 600

\* Style of the part at index i: size 10, underlined, every second part bold.
StyleOf(i) ==
    [f |-> "Helvetica", m |-> IF i % 2 = 0 THEN "b" ELSE "n",
     s |-> 10, c |-> "0.1", r |-> 0, u |-> TRUE, bg |-> "None"]

\* Column widths, in millipoints: 1, 3 1/3 and 5 characters.
Widths == {6000, 20000, 30000}

\* Height budgets, in millipoints: less than a line, one line, many lines.
Heights == {5000, 15000, 100000}

Aligns == {"l", "j"}

Indents == {0}

\* The strings of n characters over {letter, ' '}.
RECURSIVE StringsOfLen(_, _)
StringsOfLen(n, letter) ==
    IF n = 0 THEN {<<>>}
    ELSE {<<ch>> \o s : ch \in {letter, " "}, s \in StringsOfLen(n - 1, letter)}

\* {'type': 'br'}
BrPart == [type |-> "br", text |-> <<>>, tokenized |-> FALSE,
           style |-> StyleOf(0), ids |-> <<>>]

\* {'text': str, 'style': ..., 'ids': [i]}; tokenized once add_part has
\* replaced the string by its list of words
TextPart(i, str) ==
    [type |-> "text", text |-> str, tokenized |-> FALSE,
     style |-> StyleOf(i), ids |-> <<i>>]

\* The contents whose parts from index i on cost at most n.
RECURSIVE ContentsFrom(_, _)
ContentsFrom(i, n) ==
    {<<>>} \cup
    (IF n = 0 THEN {}
     ELSE {<<BrPart>> \o rest : rest \in ContentsFrom(i + 1, n - 1)}
          \cup UNION {
              {<<TextPart(i, str)>> \o rest :
                  str \in StringsOfLen(k, Letters[i]),
                  rest \in ContentsFrom(i + 1, n - k)} : k \in 1..n})

Contents == ContentsFrom(1, MaxChars) \ {<<>>}

-----------------------------------------------------------------------------
(* Arithmetic *)

\* n/d rounded to the nearest integer (d > 0): round(v, 3) on millipoints
Round(n, d) == (n + d \div 2) \div d

Abs(a) == IF a < 0 THEN -a ELSE a

\* Greatest common divisor of a >= 0 and b > 0
RECURSIVE GCD(_, _)
GCD(a, b) == IF a = 0 THEN b ELSE GCD(b % a, a)

RECURSIVE SumSeq(_)
SumSeq(s) == IF s = <<>> THEN 0 ELSE Head(s) + SumSeq(Tail(s))

RECURSIVE Concat(_)
Concat(ss) == IF ss = <<>> THEN <<>> ELSE Head(ss) \o Concat(Tail(ss))

-----------------------------------------------------------------------------
(* Words *)

Space == <<" ">>

\* str.isspace()
isspace(word) == word # <<>> /\ \A k \in DOMAIN word : word[k] = " "

\* Length of the longest prefix of str whose characters are all spaces (sp)
\* or all non-spaces (~sp).
RECURSIVE RunLen(_, _)
RunLen(str, sp) ==
    IF str = <<>> \/ (Head(str) = " ") # sp THEN 0
    ELSE 1 + RunLen(Tail(str), sp)

\* add_part: [' ' if w.isspace() else w for w in re.split('( +)', words)
\*            if w != '']
RECURSIVE SplitWords(_)
SplitWords(str) ==
    IF str = <<>> THEN <<>>
    ELSE LET sp == Head(str) = " "
             n == RunLen(str, sp)
         IN  <<IF sp THEN Space ELSE SubSeq(str, 1, n)>>
             \o SplitWords(SubSeq(str, n + 1, Len(str)))

\* The words of a part as add_part's loop sees them.
WordsOf(part) == IF part.tokenized THEN part.text ELSE SplitWords(part.text)

-----------------------------------------------------------------------------
(* PDFState *)

\* PDFState.__init__: the fields compare reads; rise = style['r'] * size
PDFState(style) ==
    [none |-> FALSE, font_family |-> style.f, font_mode |-> style.m,
     size |-> style.s * 1000, color |-> style.c,
     rise |-> style.r * style.s * 1000]

\* No state yet (None).
NoState ==
    [none |-> TRUE, font_family |-> "", font_mode |-> "", size |-> 0,
     color |-> "", rise |-> 0]

\* One operator of a content stream.
Op(op, a, b, w) == [op |-> op, a |-> a, b |-> b, w |-> w]

\* compare that writes the three operators whatever the other state is
compare_all(self, other) ==
    <<Op("Tf", self.size, 0, <<self.font_family, self.font_mode>>),
      Op("g", 0, 0, <<self.color>>),
      Op("Ts", self.rise, 0, <<>>)>>

\* PDFState.compare: the operators that lead from state other to state self
compare(self, other) ==
    (IF other.none \/ self.font_family # other.font_family
        \/ self.font_mode # other.font_mode \/ self.size # other.size
     THEN <<Op("Tf", self.size, 0, <<self.font_family, self.font_mode>>)>>
     ELSE <<>>)
    \o (IF other.none \/ self.color # other.color
        THEN <<Op("g", 0, 0, <<self.color>>)>> ELSE <<>>)
    \o (IF other.none \/ self.rise # other.rise
        THEN <<Op("Ts", self.rise, 0, <<>>)>> ELSE <<>>)

-----------------------------------------------------------------------------
(* PDFTextLinePart *)

\* PDFTextLinePart.get_char_width: size * ws[char] / 1000 pt, in millipoints
get_char_width(part, char) == part.style.s * GlyphWidth(char)

\* PDFTextLinePart.get_word_width
get_word_width(part, word) ==
    SumSeq([k \in DOMAIN word |-> get_char_width(part, word[k])])

\* PDFTextLinePart.__init__
PDFTextLinePart(style, part_ids) ==
    [style |-> style, state |-> PDFState(style), underline |-> style.u,
     ids |-> part_ids, width |-> 0, words |-> <<>>, spaces_width |-> 0]

\* PDFTextLinePart.space_width
space_width(part) == get_char_width(part, " ")

\* PDFTextLinePart.add_word
part_add_word(part, word) ==
    IF word = Space
    THEN [part EXCEPT !.words = Append(@, word),
                      !.spaces_width = @ + space_width(part)]
    ELSE [part EXCEPT !.words = Append(@, word),
                      !.width = @ + get_word_width(part, word)]

\* PDFTextLinePart.pop_word(-1)
pop_word(part) ==
    IF Len(part.words) > 0
    THEN LET word == part.words[Len(part.words)]
             rest == SubSeq(part.words, 1, Len(part.words) - 1)
         IN  IF word = Space
             THEN [part EXCEPT !.words = rest,
                               !.spaces_width = @ - space_width(part)]
             ELSE [part EXCEPT !.words = rest,
                               !.width = @ - get_word_width(part, word)]
    ELSE part

\* The width of the part with its spaces at factor 1
current_width_unjustified(part, num, den) ==
    (part.width + part.spaces_width) * den

\* PDFTextLinePart.current_width(factor), times den, for factor = num/den
current_width(part, num, den) == part.width * den + part.spaces_width * num

-----------------------------------------------------------------------------
(* PDFTextLine *)

\* PDFTextLine.__init__; has_next is next_line is not None
PDFTextLine(max_width) ==
    [max_width |-> max_width, line_parts |-> <<>>, top_margin |-> 0,
     has_next |-> FALSE, is_last_word_space |-> TRUE,
     firstWordAdded |-> FALSE, started |-> FALSE]

\* PDFTextLine.height
line_height_of(line) ==
    LET tops == {0} \cup {line.line_parts[k].state.rise :
                             k \in DOMAIN line.line_parts}
        sizes == {0} \cup {line.line_parts[k].state.size :
                              k \in DOMAIN line.line_parts}
    IN  (CHOOSE h \in sizes : \A o \in sizes : o <= h)
        + line.top_margin
        + (CHOOSE t \in tops : \A o \in tops : o <= t)

\* PDFTextLine.bottom
bottom(line) ==
    LET bots == {0} \cup {-line.line_parts[k].state.rise :
                             k \in DOMAIN line.line_parts}
    IN  CHOOSE b \in bots : \A o \in bots : o <= b

\* PDFTextLine.get_widths
get_widths(line) ==
    [words_width |-> SumSeq([k \in DOMAIN line.line_parts |->
                                line.line_parts[k].width]),
     spaces_width |-> SumSeq([k \in DOMAIN line.line_parts |->
                                 line.line_parts[k].spaces_width])]

\* PDFTextLine.factor, as a fraction
factor_num(align) == IF align # "j" THEN 1 ELSE JustifyMinFactorNum
factor_den(align) == IF align # "j" THEN 1 ELSE JustifyMinFactorDen

\* PDFTextLine.min_width times factor_den
min_width(line, align) ==
    LET ws == get_widths(line)
    IN  ws.words_width * factor_den(align)
        + ws.spaces_width * factor_num(align)

\* PDFTextLine.add_line_part on the line at index cur
add_line_part(objs, cur, style, part_ids) ==
    LET objs1 == IF objs[cur].has_next THEN objs
                 ELSE Append([objs EXCEPT ![cur].has_next = TRUE],
                             PDFTextLine(objs[cur].max_width))
    IN  [objs1 EXCEPT ![cur + 1].line_parts =
                          Append(@, PDFTextLinePart(style, part_ids))]

\* PDFTextLine.add_accumulated on the line at index cur
add_accumulated(objs, cur) ==
    LET parts == objs[cur].line_parts \o objs[cur + 1].line_parts
        n == Len(parts)
        last_part == part_add_word(parts[n], Space)
    IN  [objs EXCEPT
            ![cur].line_parts = [parts EXCEPT ![n] = last_part],
            ![cur + 1].line_parts =
                <<PDFTextLinePart(last_part.style, last_part.ids)>>]

\* The pending word goes to the last part of next_line.
AddToNext(objs, cur, word) ==
    [objs EXCEPT ![cur + 1].line_parts[Len(objs[cur + 1].line_parts)] =
                     part_add_word(@, word)]

\* add_word, lines 207: the pending words still fit on the line
Fits(objs, cur, align) ==
    min_width(objs[cur], align) + min_width(objs[cur + 1], align)
        < objs[cur].max_width * factor_den(align)

\* add_word, lines 210-225: the line is finished and next_line, seeded with
\* the pending words in a new next_line of its own, is handed back
FinishLine(objs, cur, new_width) ==
    LET parts == objs[cur].line_parts
        n == Len(parts)
        popped == IF Len(parts[n].words) > 0
                     /\ parts[n].words[Len(parts[n].words)] = Space
                  THEN [objs EXCEPT ![cur].line_parts[n] = pop_word(@)]
                  ELSE objs
        pending == popped[cur + 1].line_parts
    IN  Append([popped EXCEPT ![cur + 1].firstWordAdded = TRUE,
                              ![cur + 1].top_margin = bottom(popped[cur]),
                              ![cur + 1].has_next = TRUE,
                              ![cur + 1].line_parts = <<>>],
               [PDFTextLine(new_width) EXCEPT !.line_parts = pending])

\* What add_word returns: its status, the line objects after the call and,
\* for 'finished', the new line.
WordResult(status, objs, cur) ==
    [status |-> status, objs |-> objs, new_line |-> cur + 1]

\* add_word, lines 185-196, without the firstWordAdded test at line 187
add_word_first_unguarded(objs, cur, word) ==
    IF isspace(word)
    THEN WordResult("added",
             add_accumulated([objs EXCEPT ![cur].started = TRUE], cur),
             cur)
    ELSE WordResult("added",
             AddToNext([objs EXCEPT ![cur].firstWordAdded = TRUE], cur, word),
             cur)

\* add_word, lines 185-196: the line has not started
add_word_first(objs, cur, word) ==
    IF isspace(word)
    THEN IF objs[cur].firstWordAdded
         THEN WordResult("added",
                  add_accumulated([objs EXCEPT ![cur].started = TRUE], cur),
                  cur)
         ELSE WordResult("ignored", objs, cur)
    ELSE WordResult("added",
             AddToNext([objs EXCEPT ![cur].firstWordAdded = TRUE], cur, word),
             cur)

\* add_word, lines 197-225: the line has started
add_word_started(objs, cur, word, new_width, align) ==
    IF isspace(word)
    THEN IF objs[cur].is_last_word_space
         THEN WordResult("ignored", objs, cur)
         ELSE WordResult("added", add_accumulated(objs, cur), cur)
    ELSE LET o == AddToNext([objs EXCEPT ![cur].is_last_word_space = FALSE],
                            cur, word)
         IN  IF Fits(o, cur, align)
             THEN WordResult("preadded", o, cur)
             ELSE WordResult("finished", FinishLine(o, cur, new_width), cur)

\* add_word with the test of next_line after the first assignment
add_word_raise_late(objs, cur, word, new_width, align) ==
    IF ~objs[cur].has_next
    THEN WordResult("Exception",
                    [objs EXCEPT ![cur].firstWordAdded = ~isspace(word)],
                    cur)
    ELSE IF ~objs[cur].started
    THEN add_word_first(objs, cur, word)
    ELSE add_word_started(objs, cur, word, new_width, align)

\* PDFTextLine.add_word on the line at index cur; without a next_line it
\* raises at line 180, before anything else
add_word(objs, cur, word, new_width, align) ==
    IF ~objs[cur].has_next
    THEN WordResult("Exception", objs, cur)
    ELSE IF ~objs[cur].started
    THEN add_word_first(objs, cur, word)
    ELSE add_word_started(objs, cur, word, new_width, align)

-----------------------------------------------------------------------------
(* PDFTextBase: emitting a line *)

\* None and a number v, for last_factor and last_stroke_width
None == <<>>
Some(v) == <<v>>

\* PDFTextBase.output_text; factor = num/den.  acc carries text, last_state
\* and last_factor.
output_text(part, num, den, acc) ==
    LET stream == compare(part.state, acc.last_state)
        tw == Round(space_width(part) * (num - den), den)
        spacing == IF acc.last_factor # Some(tw)
                   THEN <<Op("Tw", tw, 0, <<>>)>> ELSE <<>>
        show == IF Concat(part.words) # <<>>
                THEN <<Op("Tj", 0, 0, part.words)>> ELSE <<>>
    IN  [acc EXCEPT !.text = @ \o stream \o spacing \o show,
                    !.last_state = part.state,
                    !.last_factor = IF acc.last_factor # Some(tw)
                                    THEN Some(tw) ELSE @]

\* PDFTextBase.output_graphics for a part without background (bg is None):
\* the underline.  x and part_width are numerators over xd.
output_graphics(part, x, xd, y, part_width, acc) ==
    IF part.underline
    THEN LET color == part.state.color
             stroke_width == part.state.size \div 10
             y_u == y + part.state.rise - stroke_width
         IN  [acc EXCEPT
                 !.graphics = @
                     \o (IF color # acc.last_color
                         THEN <<Op("G", 0, 0, <<color>>)>> ELSE <<>>)
                     \o (IF Some(stroke_width) # acc.last_stroke_width
                         THEN <<Op("w", stroke_width, 0, <<>>)>> ELSE <<>>)
                     \o <<Op("m", Round(x, xd), y_u, <<>>),
                          Op("l", Round(x + part_width, xd), y_u, <<>>)>>,
                 !.last_color = color,
                 !.last_stroke_width = Some(stroke_width)]
    ELSE acc

\* add_line_to_stream, lines 486-492: one box per id of the part.  ids is
\* the list of the (id, box) pairs in the order they were added: the list
\* the dictionary holds for an id is the boxes of the pairs with that id.
RECURSIVE AddBoxes(_, _, _)
AddBoxes(boxes, part_ids, box) ==
    IF part_ids = <<>> THEN boxes
    ELSE AddBoxes(Append(boxes, [id |-> Head(part_ids), box |-> box]),
                  Tail(part_ids), box)

\* add_line_to_stream, lines 481-497: the loop over the parts of the line.
\* acc.x is the numerator of x over xd = 2 * den.
RECURSIVE EmitParts(_, _, _, _)
EmitParts(parts, num, den, acc) ==
    IF parts = <<>> THEN acc
    ELSE LET part == Head(parts)
             xd == 2 * den
             acc1 == output_text(part, num, den, acc)
             part_width == 2 * current_width(part, num, den)
             part_size == part.state.size
             box == <<Round(acc.x, xd),
                      acc.y_ + part.state.rise - part_size \div 4,
                      Round(acc.x + part_width, xd),
                      part_size>>
             acc2 == [acc1 EXCEPT !.ids = AddBoxes(@, part.ids, box)]
             acc3 == output_graphics(part, acc.x, xd, acc.y_, part_width, acc2)
         IN  EmitParts(Tail(parts), num, den,
                       [acc3 EXCEPT !.x = @ + part_width])

\* add_line_to_stream, lines 433-438 and 479: the factor
\* factor_width / spaces_width in lowest terms, for a line of widths ws.
line_factor(ws, is_last) ==
    LET ignore_factor == text_align # "j" \/ is_last \/ ws.spaces_width = 0
        factor_width == width - list_indent - ws.words_width
                        - (IF ~started /\ is_first_line THEN indent ELSE 0)
        g == IF ignore_factor THEN 1
             ELSE GCD(Abs(factor_width), ws.spaces_width)
    IN  [num |-> IF ignore_factor THEN 1 ELSE factor_width \div g,
         den |-> IF ignore_factor THEN 1 ELSE ws.spaces_width \div g]

\* add_line_to_stream, lines 435-477, with list_text None: the move to the
\* line and the fields as the loop over the parts finds them.  last_indent
\* holds twice the source's value (a centred line's indent is a half); x is
\* a numerator over 2 * den.
line_start(ws, line_height, factor) ==
    LET aligned == started /\ text_align \in {"r", "c"}
        indent2 == IF text_align = "c"
                   THEN width - ws.words_width - ws.spaces_width
                   ELSE 2 * (width - ws.words_width - ws.spaces_width)
        adjusted2 == (IF aligned THEN indent2 - last_indent ELSE 0)
                     - (IF correct_indent THEN 2 * indent ELSE 0)
        full_line_height ==
            IF ~started THEN line_height
            ELSE (line_height * LineHeightNum) \div LineHeightDen
        move == IF ~started
                THEN Op("Td", IF is_first_line THEN indent ELSE 0,
                        full_line_height, <<>>)
                ELSE Op("Td", Round(adjusted2, 2), full_line_height, <<>>)
    IN  [text |-> Append(text, move), graphics |-> graphics, ids |-> ids,
         x |-> (IF aligned THEN indent2 ELSE 0) * factor.den,
         y_ |-> y_ - full_line_height,
         last_state |-> last_state, last_factor |-> last_factor,
         last_color |-> last_color,
         last_stroke_width |-> last_stroke_width,
         started |-> TRUE,
         is_first_line |-> IF ~started THEN FALSE ELSE is_first_line,
         correct_indent |-> IF started THEN FALSE ELSE correct_indent,
         last_indent |-> IF aligned THEN indent2 ELSE last_indent,
         num |-> factor.num, den |-> factor.den,
         spaces_width |-> ws.spaces_width, words_width |-> ws.words_width]

\* add_line_to_stream for a line of widths ws emitted at the given factor
line_to_stream(line, ws, factor) ==
    EmitParts(line.line_parts, factor.num, factor.den,
              line_start(ws, line_height_of(line), factor))

\* PDFTextBase.add_line_to_stream(line, is_last): the new values of the
\* fields it assigns, and num/den, the factor the line is emitted at.
add_line_to_stream(line, is_last) ==
    line_to_stream(line, get_widths(line),
                   line_factor(get_widths(line), is_last))

\* The fields add_current_line may assign, as they are now.
Unchanged ==
    [text |-> text, graphics |-> graphics, ids |-> ids, y_ |-> y_,
     last_state |-> last_state, last_factor |-> last_factor,
     last_color |-> last_color, last_stroke_width |-> last_stroke_width,
     started |-> started, is_first_line |-> is_first_line,
     correct_indent |-> correct_indent, last_indent |-> last_indent,
     current_height |-> current_height, lines |-> lines,
     used_fonts |-> used_fonts,
     current_line_used_fonts |-> current_line_used_fonts,
     emitted |-> emitted]

\* add_current_line, lines 387-395: the fields after the line at index cur
\* is committed, s being what add_line_to_stream gives for it.
line_committed(s, line, cur, is_last, line_height) ==
    [text |-> s.text, graphics |-> s.graphics, ids |-> s.ids, y_ |-> s.y_,
     last_state |-> s.last_state, last_factor |-> s.last_factor,
     last_color |-> s.last_color,
     last_stroke_width |-> s.last_stroke_width,
     started |-> s.started, is_first_line |-> s.is_first_line,
     correct_indent |-> s.correct_indent, last_indent |-> s.last_indent,
     current_height |-> current_height + line_height,
     lines |-> Append(lines, cur),
     used_fonts |-> used_fonts \cup current_line_used_fonts,
     current_line_used_fonts |-> {},
     emitted |-> Append(emitted,
         [line |-> cur, is_last |-> is_last, num |-> s.num, den |-> s.den,
          spaces_width |-> s.spaces_width, words_width |-> s.words_width,
          height |-> line_height, max_width |-> line.max_width,
          line_parts |-> line.line_parts,
          ops |-> SubSeq(s.text, Len(text) + 1, Len(s.text)),
          boxes |-> SubSeq(s.ids, Len(ids) + 1, Len(s.ids))])]

\* add_current_line with used_fonts updated before the height test
add_line_fonts_first(line, cur, is_last, line_height) ==
    IF line_height + current_height > height
    THEN [ok |-> FALSE,
          f |-> [Unchanged EXCEPT
                    !.used_fonts = @ \cup current_line_used_fonts,
                    !.current_line_used_fonts = {}]]
    ELSE [ok |-> TRUE,
          f |-> line_committed(add_line_to_stream(line, FALSE), line, cur,
                               is_last, line_height)]

\* add_current_line for a line whose height times line_height is
\* line_height: whether it returns True, and the fields after it.  is_last
\* is not handed on to add_line_to_stream (line 393).
add_line(line, cur, is_last, line_height) ==
    IF line_height + current_height > height
    THEN [ok |-> FALSE, f |-> Unchanged]
    ELSE [ok |-> TRUE,
          f |-> line_committed(add_line_to_stream(line, FALSE), line, cur,
                               is_last, line_height)]

\* PDFTextBase.add_current_line(is_last) when current_line is the line at
\* index cur of objs
add_current_line(objs, cur, is_last) ==
    add_line(objs[cur], cur, is_last,
             (line_height_of(objs[cur]) * LineHeightNum) \div LineHeightDen)

\* The fields of add_current_line's result become the state.
Assign(f) ==
    /\ text' = f.text
    /\ graphics' = f.graphics
    /\ ids' = f.ids
    /\ y_' = f.y_
    /\ last_state' = f.last_state
    /\ last_factor' = f.last_factor
    /\ last_color' = f.last_color
    /\ last_stroke_width' = f.last_stroke_width
    /\ started' = f.started
    /\ is_first_line' = f.is_first_line
    /\ correct_indent' = f.correct_indent
    /\ last_indent' = f.last_indent
    /\ current_height' = f.current_height
    /\ lines' = f.lines
    /\ used_fonts' = f.used_fonts
    /\ current_line_used_fonts' = f.current_line_used_fonts
    /\ emitted' = f.emitted

-----------------------------------------------------------------------------
(* PDFText: parsing the nested content *)

\* An element of the nested content.  kind is "str" (text), "dict" (a
\* scope), "list" or "other" (anything else: a number, None).  A dict has
\* the anchors label, ref and uri (<<>> when absent), b for a 'style' that
\* sets bold, and dot for its '.' key: "none" (no such key), "list" (the
\* elements), "str" (the string text) or "other".
Node(kind, str, label, ref, uri, b, dot, elements) ==
    [kind |-> kind, text |-> str, label |-> label, ref |-> ref, uri |-> uri,
     b |-> b, dot |-> dot, elements |-> elements]

Str(str) == Node("str", str, <<>>, <<>>, <<>>, FALSE, "none", <<>>)
Other == Node("other", <<>>, <<>>, <<>>, <<>>, FALSE, "none", <<>>)
List(elements) ==
    Node("list", <<>>, <<>>, <<>>, <<>>, FALSE, "list", elements)

\* TEXT_DEFAULTS, in the form of a part's style
TextDefaultsSize == 11
TEXT_DEFAULTS ==
    [f |-> "Helvetica", m |-> "n", s |-> TextDefaultsSize, c |-> "0.1",
     r |-> 0, u |-> FALSE, bg |-> "None"]

\* Nothing parsed yet: self.content = [], and the list [] handed to the
\* first _recursive_content_parse is the list at index 1 of heap.
NotParsed == [content |-> <<>>, heap |-> <<<<>>>>, error |-> "none",
              done |-> FALSE]

\* No content was handed to a PDFText.
NoTree == Other

\* ids = ids: the child works on the list of its parent
share_ids(heap, ref) == [heap |-> heap, ref |-> ref]

\* deepcopy(ids), line 572: a new list with the elements of the list at ref
deepcopy(heap, ref) ==
    [heap |-> Append(heap, heap[ref]), ref |-> Len(heap) + 1]

\* style.update(process_style(content.get('style'))), line 602, for a
\* 'style' that sets bold or is absent
process_style(style, c) == IF c.b THEN [style EXCEPT !.m = "b"] ELSE style

\* The anchors of a scope in the order lines 606-614 append them
anchors(c) ==
    (IF c.label # <<>> THEN <<<<"$label:", c.label[1]>>>> ELSE <<>>)
    \o (IF c.ref # <<>> THEN <<<<"$ref:", c.ref[1]>>>> ELSE <<>>)
    \o (IF c.uri # <<>> THEN <<<<"$uri:", c.uri[1]>>>> ELSE <<>>)

\* dict == dict on text parts: style, text and the elements of ids
SamePart(st, part, style, ref) ==
    /\ part.style = style
    /\ part.text = <<>>
    /\ st.heap[part.ids] = st.heap[ref]

\* self.content.remove(part) for the empty part of this style and ids: the
\* first part equal to it goes, and ValueError when there is none
content_remove(st, style, ref) ==
    LET found == {i \in DOMAIN st.content :
                     SamePart(st, st.content[i], style, ref)}
    IN  IF found = {} THEN [st EXCEPT !.error = "ValueError"]
        ELSE LET i == CHOOSE i \in found : \A j \in found : i <= j
             IN  [st EXCEPT !.content =
                     SubSeq(@, 1, i - 1) \o SubSeq(@, i + 1, Len(@))]

\* PDFText._new_text_part(style, ids, last_part): last_text is the text of
\* last_part, and has_last is last_part is not None.  scope records the
\* place in the tree of the scope that made the part.
new_text_part(st, style, ref, scope, has_last, last_text) ==
    LET st1 == IF has_last /\ last_text = <<>>
               THEN content_remove(st, style, ref) ELSE st
    IN  IF st1.error # "none" THEN st1
        ELSE [st1 EXCEPT !.content =
                 Append(@, [style |-> style, text |-> <<>>, ids |-> ref,
                            scope |-> scope])]

\* element.split('\n')[0]
RECURSIVE first_line(_)
first_line(str) ==
    IF str = <<>> \/ Head(str) = "\n" THEN <<>>
    ELSE <<Head(str)>> \o first_line(Tail(str))

\* text_part['text'] += str, text_part being the last part of content
add_text(st, str) ==
    [st EXCEPT !.content[Len(st.content)].text = @ \o str]

\* lines 620-630 for a string element that is not ''; the loop over
\* lines[1:] fails at line 627 (self.elements does not exist)
parse_string(st, element, style, ref, scope, text_part, is_last_string) ==
    LET st1 == IF is_last_string THEN st
               ELSE new_text_part(st, style, ref, scope, TRUE, text_part)
    IN  IF st1.error # "none" THEN st1
        ELSE IF first_line(element.text) # element.text
        THEN [add_text(st1, first_line(element.text))
                 EXCEPT !.error = "AttributeError"]
        ELSE add_text(st1, element.text)

RECURSIVE recursive_content_parse(_, _, _, _, _)
RECURSIVE parse_elements(_, _, _, _, _, _, _, _)

\* _recursive_content_parse, lines 616-642: the loop over the elements from
\* index k on and the end of the scope.  text_part is the text of the
\* current text part.
parse_elements(elements, k, style, ref, scope, text_part, is_last, st) ==
    IF st.error # "none" THEN st
    ELSE IF k > Len(elements)
    THEN IF text_part = <<>> THEN content_remove(st, style, ref) ELSE st
    ELSE IF elements[k].kind = "str" /\ elements[k].text # <<>>
    THEN parse_elements(elements, k + 1, style, ref, scope,
             (IF is_last THEN text_part ELSE <<>>)
                 \o elements[k].text,
             TRUE,
             parse_string(st, elements[k], style, ref, scope, text_part,
                          is_last))
    ELSE IF elements[k].kind = "dict"
    THEN parse_elements(elements, k + 1, style, ref, scope, text_part,
             FALSE,
             recursive_content_parse(elements[k], style, ref,
                                     scope \o <<k>>, st))
    ELSE [st EXCEPT !.error = "TypeError"]

\* The elements of a content: lines 574-577 and 588-600
elements_of(c) ==
    IF c.kind = "str" THEN <<c>>
    ELSE IF c.dot = "str" THEN <<Str(c.text)>>
    ELSE IF c.dot = "list" THEN c.elements
    ELSE <<>>

\* _recursive_content_parse, lines 604-614: the scope's first text part on
\* the copied ids, and its anchors appended to them
scope_start(st, c, style, copy, scope) ==
    [new_text_part([st EXCEPT !.heap = copy.heap], style, copy.ref, scope,
                   FALSE, <<>>)
        EXCEPT !.heap[copy.ref] = @ \o anchors(c)]

\* _recursive_content_parse for a content with its own list of ids
parse_scope(c, style, copy, scope, st) ==
    parse_elements(elements_of(c), 1, style, copy.ref, scope, <<>>, FALSE,
                   scope_start(st, c, style, copy, scope))

\* PDFText._recursive_content_parse(content, parent_style, ids), ids being
\* the list at index ref of the heap (pdf is None)
recursive_content_parse(c, parent_style, ref, scope, st) ==
    IF c.kind = "other" \/ (c.kind = "dict" /\ c.dot = "other")
    THEN [st EXCEPT !.error = "TypeError"]
    ELSE parse_scope(c, process_style(parent_style, c),
                     deepcopy(st.heap, ref), scope, st)

-----------------------------------------------------------------------------
(* PDFTextBase: construction and run() *)

\* The values init() assigns, for a line of width line_width.
InitValues(line_width) ==
    [started |-> FALSE, lines |-> <<>>, text |-> <<>>, graphics |-> <<>>,
     ids |-> <<>>, current_height |-> 0,
     current_line_used_fonts |-> {},
     line_objs |-> <<PDFTextLine(line_width)>>, current_line |-> 1,
     last_indent |-> 0, last_state |-> NoState, last_factor |-> None,
     last_color |-> "None", last_stroke_width |-> None, y_ |-> 0,
     emitted |-> <<>>]

\* The fields init() assigns take the values v.
AssignInit(v) ==
    /\ started' = v.started
    /\ lines' = v.lines
    /\ text' = v.text
    /\ graphics' = v.graphics
    /\ ids' = v.ids
    /\ current_height' = v.current_height
    /\ current_line_used_fonts' = v.current_line_used_fonts
    /\ line_objs' = v.line_objs
    /\ current_line' = v.current_line
    /\ last_indent' = v.last_indent
    /\ last_state' = v.last_state
    /\ last_factor' = v.last_factor
    /\ last_color' = v.last_color
    /\ last_stroke_width' = v.last_stroke_width
    /\ y_' = v.y_
    /\ emitted' = v.emitted

\* PDFTextBase.init()
init ==
    AssignInit(InitValues(width - list_indent
                          - (IF is_first_line THEN indent ELSE 0)))

\* What a caller reads after run() has returned.
Output(h, t, g, i, ls, fin) ==
    [set |-> TRUE, height |-> h, text |-> t, graphics |-> g, ids |-> i,
     lines |-> ls, finished |-> fin]

NoOutput ==
    [set |-> FALSE, height |-> 0, text |-> <<>>, graphics |-> <<>>,
     ids |-> <<>>, lines |-> <<>>, finished |-> FALSE]

\* The lines of a list of line references, as values.
RECURSIVE LineValues(_, _)
LineValues(objs, refs) ==
    IF refs = <<>> THEN <<>>
    ELSE <<objs[Head(refs)]>> \o LineValues(objs, Tail(refs))

\* The fields __init__ sets from no argument, followed by the values init()
\* gives the rest, content, width and indent being set
InitFields ==
    /\ last_part_index = 0
    /\ last_word_index = 0
    /\ finished = FALSE
    /\ is_first_line = TRUE
    /\ correct_indent = TRUE
    /\ used_fonts = {}
    /\ LET v == InitValues(width - list_indent - indent)
       IN  /\ started = v.started
           /\ lines = v.lines
           /\ text = v.text
           /\ graphics = v.graphics
           /\ ids = v.ids
           /\ current_height = v.current_height
           /\ current_line_used_fonts = v.current_line_used_fonts
           /\ line_objs = v.line_objs
           /\ current_line = v.current_line
           /\ last_indent = v.last_indent
           /\ last_state = v.last_state
           /\ last_factor = v.last_factor
           /\ last_color = v.last_color
           /\ last_stroke_width = v.last_stroke_width
           /\ y_ = v.y_
           /\ emitted = v.emitted
    /\ pc = "idle"
    /\ part_index = 0
    /\ word_index = 0
    /\ ret = FALSE
    /\ runs = 0
    /\ constructs = 0
    /\ prev_lines = <<>>
    /\ first_out = NoOutput
    /\ calls = <<>>

\* PDFTextBase.__init__ followed by the values init() gives the rest
Init ==
    /\ content \in Contents
    /\ width \in Widths
    /\ height \in Heights
    /\ text_align \in Aligns
    /\ indent \in Indents
    /\ InitFields
    /\ tree = NoTree
    /\ parse = NotParsed

\* __init__ of another instance with the cursor kept from the first one, as
\* if last_part_index and last_word_index were shared between instances
construct_shared_cursor ==
    /\ UNCHANGED <<tree, parse>>
    /\ pc = "idle"
    /\ runs = 1
    /\ constructs < MaxConstructs
    /\ first_out.set
    /\ constructs' = constructs + 1
    /\ height' = first_out.height
    /\ finished' = FALSE
    /\ is_first_line' = TRUE
    /\ correct_indent' = TRUE
    /\ used_fonts' = {}
    /\ AssignInit(InitValues(width - list_indent - indent))
    /\ part_index' = 0
    /\ word_index' = 0
    /\ ret' = FALSE
    /\ runs' = 0
    /\ prev_lines' = <<>>
    /\ UNCHANGED <<content, width, text_align, indent, pc, first_out,
                   calls, last_part_index, last_word_index>>

\* PDFTextBase.__init__ of another instance on the same content object, with
\* the width and the height budget the first instance was given
construct ==
    /\ UNCHANGED <<tree, parse>>
    /\ pc = "idle"
    /\ runs = 1
    /\ constructs < MaxConstructs
    /\ first_out.set
    /\ constructs' = constructs + 1
    /\ height' = first_out.height
    /\ last_part_index' = 0
    /\ last_word_index' = 0
    /\ finished' = FALSE
    /\ is_first_line' = TRUE
    /\ correct_indent' = TRUE
    /\ used_fonts' = {}
    /\ AssignInit(InitValues(width - list_indent - indent))
    /\ part_index' = 0
    /\ word_index' = 0
    /\ ret' = FALSE
    /\ runs' = 0
    /\ prev_lines' = <<>>
    /\ UNCHANGED <<content, width, text_align, indent, pc, first_out,
                   calls>>

\* PDFTextBase.setup(height=h) between two run() calls
setup(h) ==
    /\ UNCHANGED <<tree, parse>>
    /\ pc = "idle"
    /\ runs >= 1
    /\ constructs = 0
    /\ runs < MaxRuns
    /\ height' = h
    /\ UNCHANGED <<content, width, text_align, indent, last_part_index,
                   last_word_index, finished, is_first_line, correct_indent,
                   used_fonts, started, lines, text, graphics, ids,
                   current_height, current_line_used_fonts, current_line,
                   line_objs, last_indent, last_state, last_factor,
                   last_color, last_stroke_width, y_, pc, part_index,
                   word_index, ret, runs, constructs, emitted, prev_lines,
                   first_out, calls>>

\* run(), lines 313-314: init() and the start of the loop over the parts
run ==
    /\ UNCHANGED <<tree, parse>>
    /\ pc = "idle"
    /\ runs < (IF constructs = 0 THEN MaxRuns ELSE 1)
    /\ init
    /\ part_index' = last_part_index
    /\ pc' = "loop"
    /\ runs' = runs + 1
    /\ prev_lines' = prev_lines \o LineValues(line_objs, lines)
    /\ UNCHANGED <<content, width, height, text_align, indent,
                   last_part_index, last_word_index, finished, is_first_line,
                   correct_indent, used_fonts, word_index, ret, constructs,
                   first_out, calls>>

\* run() returns value: the first call on the first instance is recorded.
Return(value) ==
    /\ pc' = "idle"
    /\ ret' = value
    /\ first_out' = IF constructs = 0 /\ runs = 1
                    THEN Output(height, text', graphics', ids',
                                LineValues(line_objs', lines'), finished')
                    ELSE first_out

\* run(), lines 324-328: after add_current_line on a 'br' part
run_br_continue(continue_) ==
    /\ Assign(continue_.f)
    /\ IF continue_.ok
       THEN /\ last_part_index' = part_index + 1
            /\ last_word_index' = 0
            /\ part_index' = part_index + 1
            /\ UNCHANGED <<pc, ret, first_out, finished>>
       ELSE /\ UNCHANGED <<last_part_index, last_word_index, part_index,
                           finished>>
            /\ Return(FALSE)

\* run(), lines 321-328: a 'br' part
run_br ==
    /\ UNCHANGED <<tree, parse>>
    /\ pc = "loop"
    /\ part_index < Len(content)
    /\ content[part_index + 1].type = "br"
    /\ UNCHANGED <<content, width, height, text_align, indent, current_line,
                   line_objs, word_index, runs, constructs, prev_lines,
                   calls>>
    /\ run_br_continue(add_current_line(line_objs, current_line, FALSE))

\* add_part, lines 341-365: the part gets a line part on next_line, its
\* font is noted and its string becomes its list of words
add_part ==
    /\ UNCHANGED <<tree, parse>>
    /\ pc = "loop"
    /\ part_index < Len(content)
    /\ content[part_index + 1].type = "text"
    /\ LET part == content[part_index + 1]
           state == PDFState(part.style)
       IN  /\ line_objs' = add_line_part(line_objs, current_line, part.style,
                                         part.ids)
           /\ current_line_used_fonts' = current_line_used_fonts
                  \cup {<<state.font_family, state.font_mode>>}
           /\ content' = [content EXCEPT ![part_index + 1] =
                             [part EXCEPT !.text = WordsOf(part),
                                          !.tokenized = TRUE]]
    /\ word_index' = last_word_index
    /\ pc' = "words"
    /\ UNCHANGED <<width, height, text_align, indent, last_part_index,
                   last_word_index, finished, is_first_line, correct_indent,
                   used_fonts, started, lines, text, graphics, ids,
                   current_height, current_line, last_indent, last_state,
                   last_factor, last_color, last_stroke_width, y_, part_index,
                   ret, runs, constructs, emitted, prev_lines, first_out,
                   calls>>

\* add_part, lines 373-379: add_word has finished the line
add_part_finished(ans, continue_) ==
    /\ Assign(continue_.f)
    /\ current_line' = ans.new_line
    /\ IF continue_.ok
       THEN /\ word_index' = word_index + 1
            /\ UNCHANGED <<pc, ret, first_out>>
       ELSE /\ UNCHANGED word_index
            /\ Return(FALSE)

\* add_part, lines 369-379, as if an added word did not move the cursor
add_part_status_keep_cursor(words, ans) ==
    /\ line_objs' = ans.objs
    /\ UNCHANGED <<last_part_index, last_word_index>>
    /\ IF ans.status = "finished"
       THEN add_part_finished(ans,
                add_current_line(ans.objs, current_line,
                    part_index = Len(content) - 1
                    /\ word_index = Len(words) - 1))
       ELSE /\ word_index' = word_index + 1
            /\ UNCHANGED <<started, lines, text, graphics, ids,
                           current_height, current_line_used_fonts,
                           current_line, last_indent, last_state,
                           last_factor, last_color, last_stroke_width,
                           y_, is_first_line, correct_indent,
                           used_fonts, emitted, pc, ret, first_out>>

\* add_part, lines 369-379: what follows add_word's answer
add_part_status(words, ans) ==
    /\ line_objs' = ans.objs
    /\ IF ans.status = "added"
       THEN /\ last_part_index' = part_index + 1
            /\ last_word_index' = 0
       ELSE UNCHANGED <<last_part_index, last_word_index>>
    /\ IF ans.status = "finished"
       THEN add_part_finished(ans,
                add_current_line(ans.objs, current_line,
                    part_index = Len(content) - 1
                    /\ word_index = Len(words) - 1))
       ELSE /\ word_index' = word_index + 1
            /\ UNCHANGED <<started, lines, text, graphics, ids,
                           current_height, current_line_used_fonts,
                           current_line, last_indent, last_state,
                           last_factor, last_color, last_stroke_width,
                           y_, is_first_line, correct_indent,
                           used_fonts, emitted, pc, ret, first_out>>

\* add_part, lines 366-379: one word of the part
add_part_word ==
    /\ UNCHANGED <<tree, parse>>
    /\ pc = "words"
    /\ word_index < Len(content[part_index + 1].text)
    /\ UNCHANGED <<content, width, height, text_align, indent, finished,
                   part_index, runs, constructs, prev_lines, calls>>
    /\ add_part_status(content[part_index + 1].text,
           add_word(line_objs, current_line,
                    content[part_index + 1].text[word_index + 1],
                    width - list_indent, text_align))

\* add_part, line 381: the words are used up, back to the loop of run()
add_part_return ==
    /\ UNCHANGED <<tree, parse>>
    /\ pc = "words"
    /\ word_index >= Len(content[part_index + 1].text)
    /\ pc' = "loop"
    /\ part_index' = part_index + 1
    /\ UNCHANGED <<content, width, height, text_align, indent,
                   last_part_index, last_word_index, finished, is_first_line,
                   correct_indent, used_fonts, started, lines, text, graphics,
                   ids, current_height, current_line_used_fonts, current_line,
                   line_objs, last_indent, last_state, last_factor,
                   last_color, last_stroke_width, y_, word_index, ret, runs,
                   constructs, emitted, prev_lines, first_out, calls>>

\* run(), lines 336-338: after add_current_line(True)
run_finish_continue(continue_) ==
    /\ Assign(continue_.f)
    /\ finished' = IF continue_.ok THEN TRUE ELSE finished
    /\ Return(finished')

\* run(), lines 335-338: the parts are used up, the last line is committed
run_finish ==
    /\ UNCHANGED <<tree, parse>>
    /\ pc = "loop"
    /\ part_index >= Len(content)
    /\ UNCHANGED <<content, width, height, text_align, indent,
                   last_part_index, last_word_index, current_line, line_objs,
                   part_index, word_index, runs, constructs, prev_lines,
                   calls>>
    /\ run_finish_continue(add_current_line(line_objs, current_line, TRUE))

Next ==
    \/ run
    \/ run_br
    \/ add_part
    \/ add_part_word
    \/ add_part_return
    \/ run_finish
    \/ \E h \in Heights : setup(h)
    \/ construct

Spec == Init /\ [][Next]_vars

-----------------------------------------------------------------------------
(* A PDFTextLine driven directly: any sequence of add_line_part and add_word
   calls, the caller going on with the new line when one is handed back *)

MaxCalls == 7

\* The words a caller hands to add_word
Tokens == {<<"a">>, <<"a", "a">>, Space}

InitLine ==
    /\ Init
    /\ content = <<BrPart>>
    /\ height = CHOOSE h \in Heights : \A o \in Heights : o <= h

\* PDFTextLine.add_line_part(style, ids) on the current line
line_add_line_part(i) ==
    /\ UNCHANGED <<tree, parse>>
    /\ Len(calls) < MaxCalls
    /\ line_objs' = add_line_part(line_objs, current_line, StyleOf(i), <<i>>)
    /\ calls' = Append(calls, [word |-> <<>>, status |-> "part",
                               line |-> current_line])
    /\ UNCHANGED <<content, width, height, text_align, indent,
                   last_part_index, last_word_index, finished, is_first_line,
                   correct_indent, used_fonts, started, lines, text, graphics,
                   ids, current_height, current_line_used_fonts, current_line,
                   last_indent, last_state, last_factor, last_color,
                   last_stroke_width, y_, pc, part_index, word_index, ret,
                   runs, constructs, emitted, prev_lines, first_out>>

\* PDFTextLine.add_word(word, new_width) on the current line
line_add_word(word) ==
    /\ UNCHANGED <<tree, parse>>
    /\ Len(calls) < MaxCalls
    /\ LET ans == add_word(line_objs, current_line, word,
                           width - list_indent, text_align)
       IN  /\ line_objs' = ans.objs
           /\ current_line' = IF ans.status = "finished" THEN ans.new_line
                              ELSE current_line
           /\ calls' = Append(calls, [word |-> word, status |-> ans.status,
                                      line |-> current_line])
    /\ UNCHANGED <<content, width, height, text_align, indent,
                   last_part_index, last_word_index, finished, is_first_line,
                   correct_indent, used_fonts, started, lines, text, graphics,
                   ids, current_height, current_line_used_fonts,
                   last_indent, last_state, last_factor, last_color,
                   last_stroke_width, y_, pc, part_index, word_index, ret,
                   runs, constructs, emitted, prev_lines, first_out>>

NextLine ==
    \/ \E i \in 1..2 : line_add_line_part(i)
    \/ \E word \in Tokens : line_add_word(word)

SpecLine == InitLine /\ [][NextLine]_vars

-----------------------------------------------------------------------------
(* PDFTextBase with an indent of the first line and the three alignments
   that are not 'j' *)

\* text_align: left, right, center
AlignedAligns == {"l", "r", "c"}

\* indent, in millipoints: none, one character
FirstLineIndents == {0, 6000}

\* Column widths, in millipoints: 3 1/3 and 5 characters
AlignedWidths == {20000, 30000}

\* Height budgets, in millipoints: one line, many lines
AlignedHeights == {15000, 100000}

InitAlign ==
    /\ content \in Contents
    /\ width \in AlignedWidths
    /\ height \in AlignedHeights
    /\ text_align \in AlignedAligns
    /\ indent \in FirstLineIndents
    /\ InitFields
    /\ tree = NoTree
    /\ parse = NotParsed

SpecAlign == InitAlign /\ [][Next]_vars

-----------------------------------------------------------------------------
(* PDFTextBase.output_text on parts of any style, one after the other, as
   the loop of add_line_to_stream calls it *)

MaxParts == 3

\* The styles of the parts: two families, modes, sizes, colors and rises
PartStyles ==
    {[f |-> f, m |-> m, s |-> sz, c |-> c, r |-> r, u |-> FALSE,
      bg |-> "None"] :
         f \in {"Helvetica", "Times"}, m \in {"n", "b"}, sz \in {10, 12},
         c \in {"0.1", "0.5"}, r \in {0, 1}}

InitParts ==
    /\ content = <<>>
    /\ width = CHOOSE w \in Widths : \A o \in Widths : o <= w
    /\ height = CHOOSE h \in Heights : \A o \in Heights : o <= h
    /\ text_align = "l"
    /\ indent = 0
    /\ InitFields
    /\ tree = NoTree
    /\ parse = NotParsed

\* The fields output_text assigns take the values of acc.
AssignText(acc) ==
    /\ text' = acc.text
    /\ last_state' = acc.last_state
    /\ last_factor' = acc.last_factor

\* self.text += self.output_text(part, 1) for a part of the given style that
\* holds the word 'a'
output_part(style) ==
    /\ Len(calls) < MaxParts
    /\ AssignText(output_text(
           part_add_word(PDFTextLinePart(style, <<>>), <<"a">>), 1, 1,
           [text |-> text, last_state |-> last_state,
            last_factor |-> last_factor]))
    /\ calls' = Append(calls, [word |-> <<"a">>, status |-> "output",
                               line |-> current_line])
    /\ UNCHANGED <<content, width, height, text_align, indent,
                   last_part_index, last_word_index, finished, is_first_line,
                   correct_indent, used_fonts, started, lines, graphics, ids,
                   current_height, current_line_used_fonts, current_line,
                   line_objs, last_indent, last_color, last_stroke_width, y_,
                   pc, part_index, word_index, ret, runs, constructs, emitted,
                   prev_lines, first_out, tree, parse>>

\* init() at the start of the next run(): the stream starts anew
stream_init ==
    /\ text # <<>>
    /\ init
    /\ UNCHANGED <<content, width, height, text_align, indent,
                   last_part_index, last_word_index, finished, is_first_line,
                   correct_indent, used_fonts, pc, part_index, word_index,
                   ret, runs, constructs, prev_lines, first_out, calls, tree,
                   parse>>

NextParts ==
    \/ \E style \in PartStyles : output_part(style)
    \/ stream_init

SpecParts == InitParts /\ [][NextParts]_vars

-----------------------------------------------------------------------------
(* One instance whose caller keeps calling run() until after it finished *)

\* Height budgets that fit a line: one line, many lines.
FitHeights ==
    {h \in Heights :
        h * LineHeightDen >= PDFState(StyleOf(1)).size * LineHeightNum}

\* The calls a caller makes: one per part, one for the last line, one more.
Resumes == Len(content) + 2

InitResume ==
    /\ content \in Contents
    /\ width \in Widths
    /\ height \in FitHeights
    /\ text_align \in Aligns
    /\ indent \in Indents
    /\ InitFields
    /\ tree = NoTree
    /\ parse = NotParsed

\* setup(height=h) before another call of run()
setup_resumed(h) ==
    /\ pc = "idle"
    /\ runs >= 1
    /\ runs < Resumes
    /\ height' = h
    /\ UNCHANGED <<content, width, text_align, indent, last_part_index,
                   last_word_index, finished, is_first_line, correct_indent,
                   used_fonts, started, lines, text, graphics, ids,
                   current_height, current_line_used_fonts, current_line,
                   line_objs, last_indent, last_state, last_factor,
                   last_color, last_stroke_width, y_, pc, part_index,
                   word_index, ret, runs, constructs, emitted, prev_lines,
                   first_out, calls, tree, parse>>

\* run(), lines 313-314, called again on the same instance
run_resumed ==
    /\ pc = "idle"
    /\ runs < Resumes
    /\ init
    /\ part_index' = last_part_index
    /\ pc' = "loop"
    /\ runs' = runs + 1
    /\ prev_lines' = prev_lines \o LineValues(line_objs, lines)
    /\ UNCHANGED <<content, width, height, text_align, indent,
                   last_part_index, last_word_index, finished, is_first_line,
                   correct_indent, used_fonts, word_index, ret, constructs,
                   first_out, calls, tree, parse>>

\* The steps of a call of run() that has started
run_steps ==
    \/ run_br
    \/ add_part
    \/ add_part_word
    \/ add_part_return
    \/ run_finish

NextResume ==
    \/ run_resumed
    \/ run_steps
    \/ \E h \in FitHeights : setup_resumed(h)

\* Where the caller and the call are: every call and every step changes it.
position == <<pc, part_index, word_index, runs>>

\* A call that has started goes on: weak fairness of run_steps, whose steps
\* are enabled exactly while a call is running.
run_goes_on == []<>(pc = "idle") \/ []<><<run_steps>>_position

\* The caller keeps calling run(), and every call goes on to its return.
SpecResume ==
    InitResume /\ [][NextResume]_vars /\ WF_position(run_resumed) /\ run_goes_on

-----------------------------------------------------------------------------
(* A PDFText made from a nested content *)

\* Number of elements (strings, scopes, others) of a nested content.
MaxNodes == 4

\* Strings of an element: a text, '' and a text with a line break
ParseStrings == {<<"a">>, <<>>, <<"a", "\n", "b">>}

\* What a scope declares: nothing, a label and a bold style, a ref and a uri
ScopeConfigs ==
    {[label |-> <<>>, ref |-> <<>>, uri |-> <<>>, b |-> FALSE],
     [label |-> <<"x">>, ref |-> <<>>, uri |-> <<>>, b |-> TRUE],
     [label |-> <<>>, ref |-> <<"y">>, uri |-> <<"z">>, b |-> FALSE]}

Dict(cfg, dot, str, elements) ==
    Node("dict", str, cfg.label, cfg.ref, cfg.uri, cfg.b, dot, elements)

\* The scopes without a list under '.': no such key, a string, anything else
PlainScopes ==
    {Dict(cfg, "none", <<>>, <<>>) : cfg \in ScopeConfigs}
    \cup {Dict(CHOOSE cfg \in ScopeConfigs : cfg.ref # <<>>, dot, <<"a">>,
               <<>>) : dot \in {"str", "other"}}

\* The elements a caller puts into a list: strings, anything else, scopes
Elements ==
    {Str(str) : str \in ParseStrings} \cup {Other} \cup PlainScopes
    \cup {Dict(cfg, "list", <<>>, <<>>) : cfg \in ScopeConfigs}

\* The number of elements of a nested content
RECURSIVE Size(_)
RECURSIVE SizeFrom(_, _)
Size(c) == 1 + SizeFrom(c.elements, 1)
SizeFrom(elements, k) ==
    IF k > Len(elements) THEN 0
    ELSE Size(elements[k]) + SizeFrom(elements, k + 1)

\* c has a list open at depth d on the path along its last elements
RECURSIVE CanAppend(_, _)
CanAppend(c, d) ==
    /\ c.dot = "list"
    /\ d > 0 => /\ c.elements # <<>>
                /\ CanAppend(c.elements[Len(c.elements)], d - 1)

\* c with element e put at the end of that list
RECURSIVE AppendAt(_, _, _)
AppendAt(c, d, e) ==
    IF d = 0 THEN [c EXCEPT !.elements = Append(@, e)]
    ELSE [c EXCEPT !.elements[Len(c.elements)] = AppendAt(@, d - 1, e)]

\* The parsed parts as PDFTextBase.__init__ receives them
RECURSIVE ToContent(_, _)
ToContent(st, k) ==
    IF k > Len(st.content) THEN <<>>
    ELSE <<[type |-> "text", text |-> st.content[k].text,
            tokenized |-> FALSE, style |-> st.content[k].style,
            ids |-> st.heap[st.content[k].ids]]>>
         \o ToContent(st, k + 1)

InitParse ==
    /\ content = <<>>
    /\ width = CHOOSE w \in Widths : \A o \in Widths : o <= w
    /\ height = CHOOSE h \in Heights : \A o \in Heights : o <= h
    /\ text_align = "l"
    /\ indent = 0
    /\ InitFields
    /\ tree \in Elements \cup {List(<<>>)}
    /\ parse = NotParsed

\* The caller puts one more element into the content, at the end of the
\* list open at depth d
put_element(e, d) ==
    /\ ~parse.done
    /\ Size(tree) < MaxNodes
    /\ CanAppend(tree, d)
    /\ tree' = AppendAt(tree, d, e)
    /\ UNCHANGED <<content, width, height, text_align, indent,
                   last_part_index, last_word_index, finished, is_first_line,
                   correct_indent, used_fonts, started, lines, text, graphics,
                   ids, current_height, current_line_used_fonts, current_line,
                   line_objs, last_indent, last_state, last_factor,
                   last_color, last_stroke_width, y_, pc, part_index,
                   word_index, ret, runs, constructs, emitted, prev_lines,
                   first_out, calls, parse>>

\* PDFText.__init__, lines 556-561, given what the parse left
PDFText_parsed(st) ==
    /\ parse' = [st EXCEPT !.done = TRUE]
    /\ content' = IF st.error = "none" THEN ToContent(st, 1) ELSE content

\* PDFText.__init__(content, width, height)
PDFText_init ==
    /\ ~parse.done
    /\ PDFText_parsed(recursive_content_parse(tree, TEXT_DEFAULTS, 1, <<>>,
                                              NotParsed))
    /\ UNCHANGED <<width, height, text_align, indent,
                   last_part_index, last_word_index, finished, is_first_line,
                   correct_indent, used_fonts, started, lines, text, graphics,
                   ids, current_height, current_line_used_fonts, current_line,
                   line_objs, last_indent, last_state, last_factor,
                   last_color, last_stroke_width, y_, pc, part_index,
                   word_index, ret, runs, constructs, emitted, prev_lines,
                   first_out, calls, tree>>

NextParse ==
    \/ \E e \in Elements, d \in 0..(MaxNodes - 1) : put_element(e, d)
    \/ PDFText_init

SpecParse == InitParse /\ [][NextParse]_vars

-----------------------------------------------------------------------------
(* What the claims speak of *)

\* The words of the parts of a line, in order.
RECURSIVE PartsWords(_)
PartsWords(parts) ==
    IF parts = <<>> THEN <<>> ELSE Head(parts).words \o PartsWords(Tail(parts))

\* The words of a list of lines, in order.
RECURSIVE LinesWords(_)
LinesWords(ls) ==
    IF ls = <<>> THEN <<>>
    ELSE PartsWords(Head(ls).line_parts) \o LinesWords(Tail(ls))

\* The words of the content, part after part.
RECURSIVE ContentWords(_)
ContentWords(c) ==
    IF c = <<>> THEN <<>>
    ELSE (IF Head(c).type = "br" THEN <<>> ELSE WordsOf(Head(c)))
         \o ContentWords(Tail(c))

NonSpace(words) == SelectSeq(words, LAMBDA w : ~isspace(w))

\* The lines committed by the current run() call, as they are now.
CommittedLines == LineValues(line_objs, lines)

\* The height budget charged for one line of text of the fixture's size.
OneLineHeight == (PDFState(StyleOf(1)).size * LineHeightNum) \div LineHeightDen

\* run() has returned from call number n on the first instance.
Returned(n) == pc = "idle" /\ runs = n /\ constructs = 0

-----------------------------------------------------------------------------
(* C1 *)

\* C1: when the first run() returns with finished = True, the non-space
\* words of the committed lines, in order, are the non-space words of the
\* content, in order, each exactly once.
C1_TokenConservation ==
    (Returned(1) /\ finished)
        => NonSpace(LinesWords(CommittedLines)) = NonSpace(ContentWords(content))

-----------------------------------------------------------------------------
(* C2 *)

\* C2: when a run() returned finished = False and a second run() with a
\* larger height budget returned finished = True, the lines of the two calls
\* together hold the non-space words of the content, in order, none
\* duplicated and none omitted.
C2_Resumability ==
    (Returned(2) /\ ~first_out.finished /\ height > first_out.height
     /\ finished)
        => NonSpace(LinesWords(prev_lines \o CommittedLines))
               = NonSpace(ContentWords(content))

-----------------------------------------------------------------------------
(* C3 *)

\* The line holds a single word, and that word alone is wider than max_width.
SingleOverlongWord(line) ==
    /\ Len(NonSpace(PartsWords(line.line_parts))) = 1
    /\ get_widths(line).words_width > line.max_width

\* C3: every line is, when it is committed, at most max_width wide with its
\* spaces taken at factor 1, unless it holds a single word wider than
\* max_width.
C3_WidthBound ==
    \A k \in DOMAIN emitted :
        \/ emitted[k].words_width + emitted[k].spaces_width
               <= emitted[k].max_width
        \/ SingleOverlongWord(emitted[k])

-----------------------------------------------------------------------------
(* C4 *)

\* C4: for a content with a word and a height budget below the height of one
\* line, the first run() returns False with finished = False, no line
\* committed and the cursor still at (0, 0).
C4_HeightOverflow ==
    (Returned(1) /\ first_out.height < OneLineHeight
     /\ NonSpace(ContentWords(content)) # <<>>)
        => /\ ~ret /\ ~finished
           /\ lines = <<>>
           /\ last_part_index = 0 /\ last_word_index = 0

-----------------------------------------------------------------------------
(* C5 *)

\* The step calls add_current_line: on a 'br' part, after the last part, or
\* when add_word has finished the line (the only step that moves
\* current_line on).
CallsAddCurrentLine ==
    \/ pc = "loop"
    \/ pc = "words" /\ current_line' = current_line + 1

\* C5: add_current_line fails exactly when current_height plus the line's
\* height times line_height exceeds height; failing, run() returns without
\* finishing and lines, current_height, used_fonts, text, graphics and ids
\* are as before; succeeding, current_height grows by exactly that height
\* and the line is appended to lines.
C5_AddCurrentLine ==
    [][(CallsAddCurrentLine /\ ~(pc = "loop" /\ pc' = "words"))
        => LET line_height ==
                   (line_height_of(line_objs'[current_line]) * LineHeightNum)
                       \div LineHeightDen
           IN  IF current_height + line_height > height
               THEN /\ pc' = "idle" /\ finished' = finished
                    /\ lines' = lines /\ current_height' = current_height
                    /\ used_fonts' = used_fonts /\ text' = text
                    /\ graphics' = graphics /\ ids' = ids
               ELSE /\ current_height' = current_height + line_height
                    /\ lines' = Append(lines, current_line)]_vars

\* C5 witness: a run() that committed a line and then returned False because
\* the next add_current_line failed.
C5_Witness == pc = "idle" /\ runs >= 1 /\ ~ret /\ Len(lines) >= 1

-----------------------------------------------------------------------------
(* C6 *)

\* C6: the factor of every line add_line_to_stream has emitted lies in
\* [0.7, 1.0].
C6_FactorRange ==
    \A k \in DOMAIN emitted :
        /\ JustifyMinFactorNum * emitted[k].den
               <= JustifyMinFactorDen * emitted[k].num
        /\ emitted[k].num <= emitted[k].den

-----------------------------------------------------------------------------
(* C7 *)

\* C7: a line is emitted with a factor other than 1 only when text_align is
\* justify, the line was not committed with is_last = True and it has a
\* space.
C7_FactorOnlyWhenJustified ==
    \A k \in DOMAIN emitted :
        emitted[k].num # emitted[k].den
            => /\ text_align = "j"
               /\ ~emitted[k].is_last
               /\ emitted[k].spaces_width > 0

-----------------------------------------------------------------------------
(* C8 *)

\* C8: whatever add_line_part and add_word calls a line has received, the
\* first word among the committed parts of the line, and of every new line
\* handed back, is not a whitespace word.
C8_NoLeadingSpace ==
    \A i \in DOMAIN line_objs :
        LET words == PartsWords(line_objs[i].line_parts)
        IN  words # <<>> => ~isspace(words[1])

\* A space arrived before the first word of the line and was ignored, the
\* line then took words, and a new line handed back took a space after its
\* first word.
C8_Witness ==
    /\ Len(calls) >= 2
    /\ isspace(calls[2].word) /\ calls[2].status = "ignored"
    /\ PartsWords(line_objs[1].line_parts) # <<>>
    /\ \E i \in DOMAIN line_objs :
           /\ i > 1
           /\ Len(PartsWords(line_objs[i].line_parts)) >= 2

-----------------------------------------------------------------------------
(* C9 *)

\* The index in content of the part a line part was made for.
SourceOf(line_part) == line_part.ids[1]

\* The words of the line parts made for the content part at index i.
RECURSIVE WordsFrom(_, _)
WordsFrom(parts, i) ==
    IF parts = <<>> THEN <<>>
    ELSE (IF SourceOf(Head(parts)) = i THEN Head(parts).words ELSE <<>>)
         \o WordsFrom(Tail(parts), i)

RECURSIVE LinesParts(_)
LinesParts(ls) ==
    IF ls = <<>> THEN <<>> ELSE Head(ls).line_parts \o LinesParts(Tail(ls))

\* The 'br' part at index b has been passed by the first run() call.
BrDone(b) ==
    /\ runs = 1 /\ constructs = 0
    /\ content[b].type = "br"
    /\ \/ pc \in {"loop", "words"} /\ part_index >= b
       \/ pc = "idle" /\ ret

\* C9: once a 'br' part has been passed, every word of the parts before it
\* is in a committed line, and no committed line holds words from both
\* sides of it.
C9_BrCommits ==
    \A b \in DOMAIN content :
        BrDone(b)
            => /\ \A i \in 1..(b - 1) :
                      content[i].type = "text"
                          => NonSpace(WordsFrom(LinesParts(CommittedLines), i))
                                 = NonSpace(WordsOf(content[i]))
               /\ \A k \in DOMAIN lines :
                      LET parts == line_objs[lines[k]].line_parts
                      IN  \A p, q \in DOMAIN parts :
                              (parts[p].words # <<>> /\ parts[q].words # <<>>)
                                  => ~(SourceOf(parts[p]) < b
                                       /\ b < SourceOf(parts[q]))

-----------------------------------------------------------------------------
(* C10 *)

-----------------------------------------------------------------------------
(* C11 *)

\* The scope at the place path of a nested content: path holds the index of
\* the element to enter at each level.
RECURSIVE ScopeAt(_, _)
ScopeAt(c, path) ==
    IF path = <<>> THEN c
    ELSE ScopeAt(elements_of(c)[Head(path)], Tail(path))

\* The ids of a scope: those of its parent followed by its own anchors.
RECURSIVE ScopeIds(_, _)
ScopeIds(c, path) ==
    (IF path = <<>> THEN <<>>
     ELSE ScopeIds(c, SubSeq(path, 1, Len(path) - 1)))
    \o anchors(ScopeAt(c, path))

\* C11: after a parse that did not fail, the ids of every text part are the
\* ids of the parent of the scope that made it followed by the anchors of
\* that scope: no anchor of a child or of a sibling scope has reached them.
C11_IdsByValue ==
    (parse.done /\ parse.error = "none")
        => \A k \in DOMAIN parse.content :
               parse.heap[parse.content[k].ids]
                   = ScopeIds(tree, parse.content[k].scope)

\* A scope with an anchor made a part, a child scope with anchors of its own
\* made the next one, and the parent made one more after the child.
C11_Witness ==
    /\ parse.done /\ parse.error = "none"
    /\ \E i, j, k \in DOMAIN parse.content :
           /\ i < j /\ j < k
           /\ parse.content[i].scope = <<>>
           /\ parse.content[k].scope = <<>>
           /\ Len(parse.content[j].scope) = 1
           /\ parse.heap[parse.content[i].ids] # <<>>
           /\ Len(parse.heap[parse.content[j].ids])
                  > Len(parse.heap[parse.content[i].ids])

-----------------------------------------------------------------------------
(* C12 *)

\* Some element of the content is neither text nor a scope: the content
\* itself, the value of a '.' key, or an element of a child list.
RECURSIVE Malformed(_)
Malformed(c) ==
    \/ c.kind = "other"
    \/ c.kind = "dict" /\ c.dot = "other"
    \/ /\ c.kind \in {"list", "dict"}
       /\ \E k \in DOMAIN elements_of(c) :
              \/ elements_of(c)[k].kind \notin {"str", "dict"}
              \/ Malformed(elements_of(c)[k])

\* Some string of the content holds a line break.
RECURSIVE HasBreak(_)
HasBreak(c) ==
    \/ c.kind = "str" /\ first_line(c.text) # c.text
    \/ /\ c.kind \in {"list", "dict"}
       /\ \E k \in DOMAIN elements_of(c) : HasBreak(elements_of(c)[k])

\* C12: the parse of a content without line breaks fails with a TypeError
\* exactly when some element is neither text nor a scope; strings and scopes
\* never raise it.
C12_TypeError ==
    (parse.done /\ ~HasBreak(tree))
        => (parse.error = "TypeError" <=> Malformed(tree))

-----------------------------------------------------------------------------
(* C13 *)

\* The last call of the history is an add_word.
WordCalled ==
    /\ Len(calls') = Len(calls) + 1
    /\ calls'[Len(calls')].status # "part"

\* C13: every add_word on a line without a next_line raises, and leaves
\* line_parts, started, firstWordAdded and is_last_word_space of the line as
\* they were.
C13_AddWordBeforePart ==
    [][(WordCalled /\ ~line_objs[current_line].has_next)
          => /\ calls'[Len(calls')].status = "Exception"
             /\ current_line' = current_line
             /\ line_objs'[current_line].line_parts
                    = line_objs[current_line].line_parts
             /\ line_objs'[current_line].started
                    = line_objs[current_line].started
             /\ line_objs'[current_line].firstWordAdded
                    = line_objs[current_line].firstWordAdded
             /\ line_objs'[current_line].is_last_word_space
                    = line_objs[current_line].is_last_word_space]_vars

\* A word and a space were both handed to a line without a next_line, and
\* a word was added once add_line_part had been called.
C13_Witness ==
    /\ \E k \in DOMAIN calls :
           calls[k].status = "Exception" /\ ~isspace(calls[k].word)
    /\ \E k \in DOMAIN calls :
           calls[k].status = "Exception" /\ isspace(calls[k].word)
    /\ \E k \in DOMAIN calls : calls[k].status = "added"

-----------------------------------------------------------------------------
(* C14 *)

\* The (font_family, font_mode) pairs of the emitted stream: those of the
\* font-select operators and those of the parts whose text was shown.
EmittedFonts ==
    UNION {{e.ops[k].w : k \in {j \in DOMAIN e.ops : e.ops[j].op = "Tf"}}
           \cup {<<e.line_parts[k].state.font_family,
                   e.line_parts[k].state.font_mode>> :
                     k \in {j \in DOMAIN e.line_parts :
                                Concat(e.line_parts[j].words) # <<>>}} :
           e \in {emitted[n] : n \in DOMAIN emitted}}

\* C14: when the first run() has returned, used_fonts is the set of the
\* fonts of the emitted stream: none of them missing, none of text that was
\* never committed.
C14_UsedFonts ==
    Returned(1) => used_fonts = EmittedFonts

-----------------------------------------------------------------------------
(* C15 *)

\* The widths of the first k parts at the factor num/den, times den: the
\* words as they are and every space stretched by the factor.
PartsWidth(parts, k, num, den) ==
    SumSeq([j \in 1..k |-> parts[j].width * den + parts[j].spaces_width * num])

\* The number of ids of the first k parts.
IdsBefore(parts, k) == SumSeq([j \in 1..k |-> Len(parts[j].ids)])

\* A line that was emitted with its spaces stretched or shrunk.
Justified(e) == text_align = "j" /\ e.num # e.den

\* C15: on a justified line, the box recorded for an id of a part goes from
\* the sum of the widths of the parts before it, at the factor of the line,
\* to that sum plus the part's own width at that factor (the line starts at
\* x = 0).
C15_JustifiedBoxes ==
    \A n \in DOMAIN emitted :
        Justified(emitted[n]) =>
            \A k \in DOMAIN emitted[n].line_parts :
                \A m \in DOMAIN emitted[n].line_parts[k].ids :
                    LET e == emitted[n]
                        b == e.boxes[IdsBefore(e.line_parts, k - 1) + m]
                    IN  /\ b.id = e.line_parts[k].ids[m]
                        /\ b.box[1] = Round(PartsWidth(e.line_parts, k - 1,
                                                       e.num, e.den), e.den)
                        /\ b.box[3] = Round(PartsWidth(e.line_parts, k,
                                                       e.num, e.den), e.den)

\* A justified line was emitted that holds a part with spaces before a part
\* with an id and a word.
C15_Witness ==
    \E n \in DOMAIN emitted :
        /\ Justified(emitted[n])
        /\ \E k \in DOMAIN emitted[n].line_parts :
               /\ k > 1
               /\ emitted[n].line_parts[1].spaces_width > 0
               /\ emitted[n].line_parts[k].ids # <<>>
               /\ emitted[n].line_parts[k].width > 0

-----------------------------------------------------------------------------
(* C16 *)

\* The last call of the history handed a word that is no space to a started
\* line with a next_line.
WordOnActiveLine ==
    /\ WordCalled
    /\ ~isspace(calls'[Len(calls')].word)
    /\ line_objs[current_line].has_next
    /\ line_objs[current_line].started

\* min_width of the committed tokens plus min_width of the pending tokens
\* with the word among them, times factor_den.
WrapTotal(word) ==
    min_width(line_objs[current_line], text_align)
    + min_width(line_objs[current_line + 1], text_align)
    + Len(word) * GlyphWidth("a") * StyleOf(1).s * factor_den(text_align)

\* C16: a word on an active line is 'preadded' when the committed and the
\* pending tokens together stay within max_width, a total equal to max_width
\* included; otherwise the line is 'finished' and the new line handed back
\* has the pending tokens, the word among them, on its own next_line.
C16_WrapDecision ==
    [][WordOnActiveLine =>
          LET word == calls'[Len(calls')].word
              max == line_objs[current_line].max_width * factor_den(text_align)
          IN  IF WrapTotal(word) <= max
              THEN /\ calls'[Len(calls')].status = "preadded"
                   /\ current_line' = current_line
              ELSE /\ calls'[Len(calls')].status = "finished"
                   /\ current_line' = current_line + 1
                   /\ line_objs'[current_line'].line_parts = <<>>
                   /\ PartsWords(line_objs'[current_line' + 1].line_parts)
                          = Append(PartsWords(
                                line_objs[current_line + 1].line_parts),
                                word)]_vars

-----------------------------------------------------------------------------
(* C17 *)

\* No two neighbours of the list of words are both spaces.
NoAdjacentSpaces(words) ==
    \A k \in 1..(Len(words) - 1) : ~(isspace(words[k]) /\ isspace(words[k + 1]))

\* C17: whatever the add_word calls were, no line holds two adjacent space
\* tokens among its committed tokens, be they of one part or of two.
C17_SpaceCollapsing ==
    \A i \in DOMAIN line_objs :
        NoAdjacentSpaces(PartsWords(line_objs[i].line_parts))

-----------------------------------------------------------------------------
(* C18 *)

\* C18: the last token of every line that run() committed and emitted is not
\* a space.
C18_NoTrailingSpace ==
    \A n \in DOMAIN emitted :
        LET words == PartsWords(emitted[n].line_parts)
        IN  words # <<>> => ~isspace(words[Len(words)])

-----------------------------------------------------------------------------
(* C19 *)

\* The line emitted as number n is the first line of the block: the first
\* line of the first run() of the instance.
FirstOfBlock(n) == n = 1 /\ runs = 1 /\ constructs = 0

\* C19: in the first run(), of the lines that hold words the first line of
\* the block wraps at width - list_indent - indent and every later line, the
\* second included, at width - list_indent.
C19_FirstLineIndent ==
    (runs = 1 /\ constructs = 0) =>
        \A n \in DOMAIN emitted :
            emitted[n].words_width > 0 =>
                emitted[n].max_width =
                    IF FirstOfBlock(n) THEN width - list_indent - indent
                    ELSE width - list_indent

-----------------------------------------------------------------------------
(* C20 *)

\* Twice the horizontal offset of the line emitted as number n: the sum of
\* the moves of the lines up to it.
Offset2(n) == 2 * SumSeq([m \in 1..n |-> emitted[m].ops[1].a])

\* Twice the offset text_align asks for.
AlignOffset2(e) ==
    IF text_align = "r" THEN 2 * (width - e.words_width - e.spaces_width)
    ELSE IF text_align = "c" THEN width - e.words_width - e.spaces_width
    ELSE 0

\* C20: in the first run(), every emitted line that holds words, the first
\* one included, is at the offset of its alignment: 0 for left, width - words_width -
\* spaces_width for right, half of it for center (the first line of the
\* block is moved further by indent).
C20_AlignmentOffset ==
    (runs = 1 /\ constructs = 0) =>
        \A n \in DOMAIN emitted :
            emitted[n].words_width > 0 =>
                Offset2(n) = AlignOffset2(emitted[n])
                             + (IF FirstOfBlock(n) THEN 2 * indent ELSE 0)

-----------------------------------------------------------------------------
(* C21 *)

\* The vertical advances of the lines emitted by the current run(), summed.
EmittedAdvance == SumSeq([n \in DOMAIN emitted |-> emitted[n].ops[1].b])

\* C21: the vertical advance emitted for every committed line is the height
\* of the line times line_height, the height charged for it, so that when
\* run() has returned the advances sum to current_height, and y_ is as far
\* below 0.
C21_VerticalAdvance ==
    /\ \A n \in DOMAIN emitted : emitted[n].ops[1].b = emitted[n].height
    /\ (pc = "idle" /\ runs >= 1)
           => EmittedAdvance = current_height /\ y_ = 0 - current_height

-----------------------------------------------------------------------------
(* C22 *)

\* The ids of the parts of the content.
AnchorIds == UNION {{content[k].ids[m] : m \in DOMAIN content[k].ids} :
                    k \in DOMAIN content}

\* Text of the anchor a is on the emitted line e.
AnchorOnLine(a, e) ==
    \E k \in DOMAIN e.line_parts :
        /\ e.line_parts[k].words # <<>>
        /\ \E m \in DOMAIN e.line_parts[k].ids : e.line_parts[k].ids[m] = a

\* The rectangles of the anchor a, of the rectangles boxes.
BoxesOf(a, boxes) == SelectSeq(boxes, LAMBDA b : b.id = a)

\* C22: the rectangles stored in ids for an anchor are one for every
\* committed line that holds text of the anchor and none for the other
\* lines, in the order of the lines.
C22_AnchorBoxMap ==
    /\ \A a \in AnchorIds :
           BoxesOf(a, ids)
               = Concat([n \in DOMAIN emitted |-> BoxesOf(a, emitted[n].boxes)])
    /\ \A a \in AnchorIds : \A n \in DOMAIN emitted :
           Len(BoxesOf(a, emitted[n].boxes))
               = IF AnchorOnLine(a, emitted[n]) THEN 1 ELSE 0

-----------------------------------------------------------------------------
(* C23 *)

\* output_text has written the operators of one more part.
PartWritten == Len(calls') = Len(calls) + 1 /\ calls'[Len(calls')].status = "output"

\* The operators written by the step.
Written == SubSeq(text', Len(text) + 1, Len(text'))

\* The operators named op among those written by the step.
WrittenOp(op) == SelectSeq(Written, LAMBDA o : o.op = op)

\* C23: compare writes a font-select operator exactly when there is no prior
\* state or family, mode or size differ from it, a color operator exactly
\* when there is none or the color differs, a rise operator exactly when
\* there is none or the rise differs, each of them once and with the values
\* of the new state; between two equal states it writes nothing.
C23_Compare ==
    [][PartWritten =>
          /\ WrittenOp("Tf") =
                 IF \/ last_state.none
                    \/ last_state'.font_family # last_state.font_family
                    \/ last_state'.font_mode # last_state.font_mode
                    \/ last_state'.size # last_state.size
                 THEN <<Op("Tf", last_state'.size, 0,
                           <<last_state'.font_family, last_state'.font_mode>>)>>
                 ELSE <<>>
          /\ WrittenOp("g") =
                 IF last_state.none \/ last_state'.color # last_state.color
                 THEN <<Op("g", 0, 0, <<last_state'.color>>)>>
                 ELSE <<>>
          /\ WrittenOp("Ts") =
                 IF last_state.none \/ last_state'.rise # last_state.rise
                 THEN <<Op("Ts", last_state'.rise, 0, <<>>)>>
                 ELSE <<>>
          /\ (~last_state.none /\ last_state' = last_state)
                 => Written = <<Op("Tj", 0, 0, <<<<"a">>>>)>>]_vars

\* Three parts were written in a row: the second in the state of the first,
\* the third differing from it in the color alone.
C23_Witness ==
    /\ Len(calls) = 3
    /\ Len(SelectSeq(text, LAMBDA o : o.op = "Tj")) = 3
    /\ Len(SelectSeq(text, LAMBDA o : o.op = "Tf")) = 1
    /\ Len(SelectSeq(text, LAMBDA o : o.op = "Ts")) = 1
    /\ Len(SelectSeq(text, LAMBDA o : o.op = "g")) = 2

-----------------------------------------------------------------------------
(* C24 *)

\* Some string of the content is ''.
RECURSIVE HasEmpty(_)
HasEmpty(c) ==
    \/ c.kind = "str" /\ c.text = <<>>
    \/ /\ c.kind \in {"list", "dict"}
       /\ \E k \in DOMAIN elements_of(c) : HasEmpty(elements_of(c)[k])

\* The characters of the strings of a content, in order.
RECURSIVE TreeText(_)
TreeText(c) ==
    IF c.kind = "str" THEN c.text
    ELSE Concat([k \in DOMAIN elements_of(c) |-> TreeText(elements_of(c)[k])])

\* The characters of the parts handed to PDFTextBase, a 'br' part standing
\* for a line break.
PartsText ==
    Concat([k \in DOMAIN content |->
                IF content[k].type = "br" THEN <<"\n">> ELSE content[k].text])

\* C24: the parse of a content whose elements are strings that are not ''
\* and scopes succeeds, a string with line breaks included; the parts it
\* gives hold no line break, a 'br' part stands where every line break was,
\* and every text part has the ids of the scope its string is in.
C24_EmbeddedBreaks ==
    (parse.done /\ ~Malformed(tree) /\ ~HasEmpty(tree)) =>
        /\ parse.error = "none"
        /\ PartsText = TreeText(tree)
        /\ \A k \in DOMAIN content :
               content[k].type = "text" => first_line(content[k].text)
                                               = content[k].text
        /\ \A k \in DOMAIN parse.content :
               parse.heap[parse.content[k].ids]
                   = ScopeIds(tree, parse.content[k].scope)

-----------------------------------------------------------------------------
(* C25 *)

\* The words shown by the text stream of the current run(), in order.
ShownWords ==
    Concat([k \in DOMAIN text |->
                IF text[k].op = "Tj" THEN text[k].w ELSE <<>>])

\* How many times the word is in the list of words.
Count(word, words) == Len(SelectSeq(words, LAMBDA w : w = word))

\* C25: within a run(), no line is in lines twice, and no word is shown by
\* the text stream more often than the content holds it.
C25_NoDoubleEmission ==
    /\ \A i, j \in DOMAIN lines : i # j => lines[i] # lines[j]
    /\ \A k \in DOMAIN ShownWords :
           ~isspace(ShownWords[k]) =>
               Count(ShownWords[k], ShownWords)
                   <= Count(ShownWords[k], ContentWords(content))

-----------------------------------------------------------------------------
(* C26 *)

\* The line emitted as number n by the current run() is the first line the
\* instance has committed.
FirstContentLine(n) == n = 1 /\ prev_lines = <<>>

\* The horizontal offset of the line emitted as number n: the moves of the
\* lines of the call up to it, summed.
Offset(n) == SumSeq([m \in 1..n |-> emitted[m].ops[1].a])

\* C26: with left alignment and an indent, in every run() call every
\* committed line but the first line of the block is at the offset
\* list_indent, and the first line of the block at list_indent + indent.
C26_IndentCorrection ==
    (text_align = "l" /\ indent > 0) =>
        \A n \in DOMAIN emitted :
            Offset(n) = IF FirstContentLine(n) THEN list_indent + indent
                        ELSE list_indent

-----------------------------------------------------------------------------
(* C27 *)

\* The heights of the lines of lines, as the lines are now, each times
\* line_height, summed.
LinesHeight ==
    SumSeq([k \in DOMAIN lines |->
                (line_height_of(line_objs[lines[k]]) * LineHeightNum)
                    \div LineHeightDen])

\* C27: in every state of a run(), current_height is the sum of height x
\* line_height over the lines of lines and is at most height.
C27_HeightBudget ==
    pc # "idle" => current_height = LinesHeight /\ current_height <= height

\* C28: when the caller keeps calling run() on one instance, each time with
\* a height that fits a line, finished becomes True after finitely many
\* calls, and once True it is True after every later call.
C28_Progress == <>finished /\ [](finished => []finished)

\* A call that did not finish, a later call that did, and a call after it.
C28_Witness ==
    /\ pc = "idle"
    /\ finished
    /\ runs >= 3
    /\ first_out.set
    /\ ~first_out.finished

====
